---- MODULE Spec2Model ----
(***************************************************************************)
(* Air cargo planning problem (my_air_cargo_problems.py).                  *)
(*                                                                         *)
(* An AirCargoProblem is built once from object lists, an initial          *)
(* FluentState and a goal list.  A search driver then walks the state      *)
(* graph the problem defines: it asks actions(state), picks one of the     *)
(* returned actions and calls result(state, action).  goal_test and the    *)
(* heuristics are pure functions of the problem and a state.               *)
(*                                                                         *)
(* A literal is an Expr: an operator name applied to a tuple of argument   *)
(* names.  An encoded state is a sequence of "T"/"F" flags, one per        *)
(* position of state_map.  Python lists are sequences.                     *)
(***************************************************************************)
EXTENDS Integers, Sequences, FiniteSets, TLC

VARIABLES
    self,      \* the AirCargoProblem object: its fields after __init__
    node,      \* the encoded state the search driver is at
    parent,    \* the encoded state result() was last called on
    action,    \* index in self.actions_list of the action last applied, 0 if none
    followed,  \* how many steps of Plan the history so far is, -1 once off it
    raised,    \* the exception raised by the last call, "none" if it returned
    called,    \* the method called last, "__init__" after construction
    returned   \* what that call returned

vars == <<self, node, parent, action, followed, raised, called, returned>>

----------------------------------------------------------------------------
(* Bound of the problem instances explored: the number of objects          *)
(* (airports, cargos and planes together) of a formulate_problem instance. *)

MaxObjects == 7

----------------------------------------------------------------------------
(* Python list helpers.                                                    *)

\* x in lst
InList(x, lst) == \E i \in DOMAIN lst : lst[i] = x

\* set(lst)
ToSet(lst) == {lst[i] : i \in DOMAIN lst}

\* the concatenation of a list of lists, in order (nested for loops that
\* append to one list)
RECURSIVE Concat(_)
Concat(lists) ==
    IF lists = <<>> THEN <<>> ELSE Head(lists) \o Concat(Tail(lists))

\* [f(x) for x in lst if keep(x)] is SelectSeq; positions of a list
Range(n) == [i \in 1..n |-> i]

----------------------------------------------------------------------------
(* Literals and the fluent-state codec.                                    *)

\* expr("Op(a, b)"): the operator name and the argument tuple
Expr(op, args) == [op |-> op, args |-> args]

FluentState(pos, neg) == [pos |-> pos, neg |-> neg]

\* encode_state: one flag per position of the map, "T" iff the literal is in
\* the positive list; a literal of fs that is not in the map has no position
encode_state(fs, fluent_map) ==
    [i \in 1..Len(fluent_map) |->
        IF InList(fluent_map[i], fs.pos) THEN "T" ELSE "F"]

\* decode_state: the map split by the flags, in map order
decode_state(state, fluent_map) ==
    LET idx == Range(Len(state))
        IsT(i) == state[i] = "T"
        IsF(i) == state[i] # "T"
        posIdx == SelectSeq(idx, IsT)
        negIdx == SelectSeq(idx, IsF)
    IN  FluentState([k \in 1..Len(posIdx) |-> fluent_map[posIdx[k]]],
                    [k \in 1..Len(negIdx) |-> fluent_map[negIdx[k]]])

----------------------------------------------------------------------------
(* Grounding of the action schemas.                                        *)

\* aimacode Action(name_expr, [precond_pos, precond_neg], [effect_add, effect_rem])
Action(nm, precond, effect) ==
    [name |-> nm.op, args |-> nm.args,
     precond_pos |-> precond[1], precond_neg |-> precond[2],
     effect_add |-> effect[1], effect_rem |-> effect[2]]

\* Load that deletes At(p, ap) in place of At(c, ap)
Load_remsPlane(c, p, ap) ==
    LET precond_pos == <<Expr("At", <<p, ap>>), Expr("At", <<c, ap>>)>>
        precond_neg == <<Expr("In", <<c, p>>)>>
        effect_add == <<Expr("In", <<c, p>>)>>
        effect_rem == <<Expr("At", <<p, ap>>)>>
    IN  Action(Expr("Load", <<c, p>>), <<precond_pos, precond_neg>>,
               <<effect_add, effect_rem>>)

\* one grounding of the Load schema (the body of the loop of load_actions);
\* the name carries the cargo and the plane only
Load(c, p, ap) ==
    LET precond_pos == <<Expr("At", <<p, ap>>), Expr("At", <<c, ap>>)>>
        precond_neg == <<Expr("In", <<c, p>>)>>
        effect_add == <<Expr("In", <<c, p>>)>>
        effect_rem == <<Expr("At", <<c, ap>>)>>
    IN  Action(Expr("Load", <<c, p>>), <<precond_pos, precond_neg>>,
               <<effect_add, effect_rem>>)

\* Unload with the add-effect of Load: the cargo stays in the plane
Unload_addsIn(c, p, ap) ==
    LET precond_pos == <<Expr("In", <<c, p>>), Expr("At", <<p, ap>>)>>
        precond_neg == <<Expr("At", <<c, ap>>)>>
        effect_add == <<Expr("In", <<c, p>>)>>
        effect_rem == <<Expr("In", <<c, p>>)>>
    IN  Action(Expr("Unload", <<c, p>>), <<precond_pos, precond_neg>>,
               <<effect_add, effect_rem>>)

\* one grounding of the Unload schema
Unload(c, p, ap) ==
    LET precond_pos == <<Expr("In", <<c, p>>), Expr("At", <<p, ap>>)>>
        precond_neg == <<Expr("At", <<c, ap>>)>>
        effect_add == <<Expr("At", <<c, ap>>)>>
        effect_rem == <<Expr("In", <<c, p>>)>>
    IN  Action(Expr("Unload", <<c, p>>), <<precond_pos, precond_neg>>,
               <<effect_add, effect_rem>>)

\* one grounding of the Fly schema
Fly(p, fr, to) ==
    LET precond_pos == <<Expr("At", <<p, fr>>)>>
        precond_neg == <<>>
        effect_add == <<Expr("At", <<p, to>>)>>
        effect_rem == <<Expr("At", <<p, fr>>)>>
    IN  Action(Expr("Fly", <<p, fr, to>>), <<precond_pos, precond_neg>>,
               <<effect_add, effect_rem>>)

\* load_actions with the loops over planes and cargos exchanged
load_actions_cargofirst(cargos, planes, airports) ==
    Concat([ia \in 1..Len(airports) |->
      Concat([ic \in 1..Len(cargos) |->
        [ip \in 1..Len(planes) |->
          Load(cargos[ic], planes[ip], airports[ia])]])])

load_actions(cargos, planes, airports) ==
    Concat([ia \in 1..Len(airports) |->
      Concat([ip \in 1..Len(planes) |->
        [ic \in 1..Len(cargos) |->
          Load(cargos[ic], planes[ip], airports[ia])]])])

unload_actions(cargos, planes, airports) ==
    Concat([ia \in 1..Len(airports) |->
      Concat([ip \in 1..Len(planes) |->
        [ic \in 1..Len(cargos) |->
          Unload(cargos[ic], planes[ip], airports[ia])]])])

\* fly_actions without the test fr != to
fly_actions_selffly(planes, airports) ==
    Concat([ifr \in 1..Len(airports) |->
      Concat([ito \in 1..Len(airports) |->
        [ip \in 1..Len(planes) |->
           Fly(planes[ip], airports[ifr], airports[ito])]])])

fly_actions(planes, airports) ==
    Concat([ifr \in 1..Len(airports) |->
      Concat([ito \in 1..Len(airports) |->
        IF airports[ifr] # airports[ito]
        THEN [ip \in 1..Len(planes) |->
               Fly(planes[ip], airports[ifr], airports[ito])]
        ELSE <<>>])])

get_actions(cargos, planes, airports) ==
    load_actions(cargos, planes, airports)
        \o unload_actions(cargos, planes, airports)
        \o fly_actions(planes, airports)

----------------------------------------------------------------------------
(* Construction.                                                           *)

\* AirCargoProblem.__init__
AirCargoProblem(cargos, planes, airports, initial, goal) ==
    LET state_map == initial.pos \o initial.neg
    IN  [state_map |-> state_map,
         initial_state_TF |-> encode_state(initial, state_map),
         goal |-> goal,
         cargos |-> cargos,
         planes |-> planes,
         airports |-> airports,
         actions_list |-> get_actions(cargos, planes, airports)]

p1_pos ==
    <<Expr("At", <<"C1", "SFO">>), Expr("At", <<"C2", "JFK">>),
      Expr("At", <<"P1", "SFO">>), Expr("At", <<"P2", "JFK">>)>>

p1_neg ==
    <<Expr("At", <<"C2", "SFO">>), Expr("In", <<"C2", "P1">>),
      Expr("In", <<"C2", "P2">>), Expr("At", <<"C1", "JFK">>),
      Expr("In", <<"C1", "P1">>), Expr("In", <<"C1", "P2">>),
      Expr("At", <<"P1", "JFK">>), Expr("At", <<"P2", "SFO">>)>>

p1_goal == <<Expr("At", <<"C1", "JFK">>), Expr("At", <<"C2", "SFO">>)>>

air_cargo_p1 ==
    AirCargoProblem(<<"C1", "C2">>, <<"P1", "P2">>, <<"JFK", "SFO">>,
                    FluentState(p1_pos, p1_neg), p1_goal)

\* formulate_problem(airports, c, p): cargo i and plane i start at airport i,
\* the goal sends cargo i to airport len - i - 1 (indices from 0)
formulate_problem(airports, c, p) ==
    LET cargoes == [x \in 1..c |-> "C" \o ToString(x)]
        planes == [x \in 1..p |-> "P" \o ToString(x)]
        n == Len(airports)
        inLits == Concat([ic \in 1..c |->
                    [ip \in 1..p |-> Expr("In", <<cargoes[ic], planes[ip]>>)]])
        cargoAt(ia, ic) == Expr("At", <<cargoes[ic], airports[ia]>>)
        planeAt(ia, ip) == Expr("At", <<planes[ip], airports[ia]>>)
        \* the literals appended to each list while airport ia is visited:
        \* first the cargos, then the planes
        posOf(ia) ==
            (IF ia <= c THEN <<cargoAt(ia, ia)>> ELSE <<>>)
            \o (IF ia <= p THEN <<planeAt(ia, ia)>> ELSE <<>>)
        negOf(ia) ==
            LET cs == SelectSeq(Range(c), LAMBDA ic : ic # ia)
                ps == SelectSeq(Range(p), LAMBDA ip : ip # ia)
            IN  [k \in 1..Len(cs) |-> cargoAt(ia, cs[k])]
                \o [k \in 1..Len(ps) |-> planeAt(ia, ps[k])]
        goalOf(ia) ==
            IF n - ia + 1 <= c THEN <<cargoAt(ia, n - ia + 1)>> ELSE <<>>
        pos == Concat([ia \in 1..n |-> posOf(ia)])
        neg == inLits \o Concat([ia \in 1..n |-> negOf(ia)])
        goal == Concat([ia \in 1..n |-> goalOf(ia)])
    IN  AirCargoProblem(cargoes, planes, airports, FluentState(pos, neg), goal)

AirportNames == <<"SFO", "JFK", "ATL", "ORD">>

----------------------------------------------------------------------------
(* The transition model.                                                   *)

\* the test of actions without the negative preconditions
applicable_posonly(a, fluents_pos_set, fluents_neg_set) ==
    ToSet(a.precond_pos) \subseteq fluents_pos_set

\* the test of actions without the positive preconditions
applicable_negonly(a, fluents_pos_set, fluents_neg_set) ==
    ToSet(a.precond_neg) \subseteq fluents_neg_set

\* whether the action's preconditions hold in the decoded state (the test of
\* the loop of actions)
applicable(a, fluents_pos_set, fluents_neg_set) ==
    LET a_pos_set == ToSet(a.precond_pos)
        a_neg_set == ToSet(a.precond_neg)
    IN  a_neg_set \subseteq fluents_neg_set /\ a_pos_set \subseteq fluents_pos_set

\* the positions in actions_list of the actions that actions(state) returns,
\* in the order of the scan
possible_indexes(prob, state) ==
    LET fluents == decode_state(state, prob.state_map)
        fluents_pos_set == ToSet(fluents.pos)
        fluents_neg_set == ToSet(fluents.neg)
    IN  SelectSeq(Range(Len(prob.actions_list)),
                  LAMBDA i : applicable(prob.actions_list[i],
                                        fluents_pos_set, fluents_neg_set))

\* AirCargoProblem.actions
actions(prob, state) ==
    LET idx == possible_indexes(prob, state)
    IN  [k \in 1..Len(idx) |-> prob.actions_list[idx[k]]]

\* new_state whose negative list keeps the literals the action adds
new_state_keepneg(prob, state, a) ==
    LET fluents == decode_state(state, prob.state_map)
        pos_list == SelectSeq(fluents.pos, LAMBDA x : ~InList(x, a.effect_rem))
                        \o a.effect_add
        neg_list == fluents.neg \o a.effect_rem
    IN  FluentState(pos_list, neg_list)

\* new_state whose positive list keeps the literals the action deletes
new_state_keeppos(prob, state, a) ==
    LET fluents == decode_state(state, prob.state_map)
        pos_list == fluents.pos \o a.effect_add
        neg_list == SelectSeq(fluents.neg, LAMBDA x : ~InList(x, a.effect_add))
                        \o a.effect_rem
    IN  FluentState(pos_list, neg_list)

\* the FluentState result() builds before it encodes it (new_state)
new_state(prob, state, a) ==
    LET fluents == decode_state(state, prob.state_map)
        pos_list == SelectSeq(fluents.pos, LAMBDA x : ~InList(x, a.effect_rem))
                        \o a.effect_add
        neg_list == SelectSeq(fluents.neg, LAMBDA x : ~InList(x, a.effect_add))
                        \o a.effect_rem
    IN  FluentState(pos_list, neg_list)

\* AirCargoProblem.result
result(prob, state, a) ==
    encode_state(new_state(prob, state, a), prob.state_map)

\* PropKB().tell(sentence).clauses for a conjunction of positive literals:
\* the conjuncts
kb_clauses(fluents) == fluents.pos

\* goal_test that returns True at the first goal clause it finds
goal_test_any(prob, state) ==
    LET clauses == kb_clauses(decode_state(state, prob.state_map))
    IN  \E i \in DOMAIN prob.goal : InList(prob.goal[i], clauses)

\* AirCargoProblem.goal_test
goal_test(prob, state) ==
    LET clauses == kb_clauses(decode_state(state, prob.state_map))
    IN  \A i \in DOMAIN prob.goal : InList(prob.goal[i], clauses)

\* h_1 that returns 0 once the goal is reached
h_1_goal0(prob, state) == IF goal_test(prob, state) THEN 0 ELSE 1

\* AirCargoProblem.h_1
h_1(prob, state) == 1

\* h_ignore_preconditions with count = 1 in place of count += 1
h_ignore_preconditions_flag(prob, state) ==
    LET x == decode_state(state, prob.state_map)
    IN  IF \E i \in DOMAIN prob.goal : InList(prob.goal[i], x.neg) THEN 1 ELSE 0

\* h_ignore_preconditions that counts the goal literals in x.pos
h_ignore_preconditions_pos(prob, state) ==
    LET x == decode_state(state, prob.state_map)
    IN  Cardinality({i \in DOMAIN prob.goal : InList(prob.goal[i], x.pos)})

\* AirCargoProblem.h_ignore_preconditions
h_ignore_preconditions(prob, state) ==
    LET x == decode_state(state, prob.state_map)
    IN  Cardinality({i \in DOMAIN prob.goal : InList(prob.goal[i], x.neg)})

----------------------------------------------------------------------------
(* The search driver.                                                      *)

\* the six-step plan for air_cargo_p1
Plan ==
    <<Load("C1", "P1", "SFO"), Fly("P1", "SFO", "JFK"), Unload("C1", "P1", "JFK"),
      Load("C2", "P2", "JFK"), Fly("P2", "JFK", "SFO"), Unload("C2", "P2", "SFO")>>

\* result that builds pos_list in the action's own effect_add list
\* (pos_list = action.effect_add; pos_list += [...]), so the entry of
\* actions_list grows with every call
CallResult_aliased(i) ==
    /\ node' = result(self, node, self.actions_list[i])
    /\ parent' = node
    /\ action' = i
    /\ followed' = -1
    /\ raised' = "none"
    /\ called' = "result"
    /\ returned' = node'
    /\ self' = [self EXCEPT !.actions_list[i].effect_add =
                   @ \o decode_state(node, self.state_map).pos]

\* result(node, actions_list[i]) is called and the driver moves to the state
\* it returns; result has no raise statement
CallResult(i) ==
    /\ node' = result(self, node, self.actions_list[i])
    /\ parent' = node
    /\ action' = i
    /\ followed' = IF /\ followed >= 0
                      /\ followed < Len(Plan)
                      /\ self.actions_list[i] = Plan[followed + 1]
                   THEN followed + 1
                   ELSE -1
    /\ raised' = "none"
    /\ called' = "result"
    /\ returned' = node'
    /\ UNCHANGED self

\* the driver expands the node: it takes the k-th action that actions(node)
\* returns and applies it
Child(possible_actions, k) ==
    CallResult(possible_actions[k])

\* result is called once, on the input state, with any grounded action,
\* applicable or not
Apply(i) ==
    /\ action = 0
    /\ CallResult(i)

\* the sizes (airports, cargos, planes) of the instances explored
Sizes ==
    {s \in (1..Len(AirportNames)) \X (1..MaxObjects) \X (1..MaxObjects) :
        s[1] + s[2] + s[3] <= MaxObjects}

Problems ==
    {air_cargo_p1} \cup
    {formulate_problem(SubSeq(AirportNames, 1, s[1]), s[2], s[3]) : s \in Sizes}

Start(prob) ==
    /\ self = prob
    /\ node = prob.initial_state_TF
    /\ parent = prob.initial_state_TF
    /\ action = 0
    /\ followed = 0
    /\ raised = "none"
    /\ called = "__init__"
    /\ returned = <<>>

\* any of the problem instances, searched from its initial state
Init == \E prob \in Problems : Start(prob)

Next ==
    LET possible_actions == possible_indexes(self, node)
    IN  \E k \in DOMAIN possible_actions : Child(possible_actions, k)

Spec == Init /\ [][Next]_vars

\* air_cargo_p1, searched from its initial state
InitP1 == Start(air_cargo_p1)

SpecP1 == InitP1 /\ [][Next]_vars

\* air_cargo_p1, result called on any encoded state with any grounded action
InitAny ==
    /\ self = air_cargo_p1
    /\ node \in [1..Len(air_cargo_p1.state_map) -> {"T", "F"}]
    /\ parent = node
    /\ action = 0
    /\ followed = 0
    /\ raised = "none"
    /\ called = "__init__"
    /\ returned = <<>>

NextAny == \E i \in DOMAIN self.actions_list : Apply(i)

SpecAny == InitAny /\ [][NextAny]_vars

\* a call of a method that only reads: the driver stays where it is
Query(method, value) ==
    /\ called' = method
    /\ returned' = value
    /\ raised' = "none"
    /\ UNCHANGED <<self, node, parent, action, followed>>

CallActions == Query("actions", actions(self, node))

CallGoalTest == Query("goal_test", goal_test(self, node))

CallH1 == Query("h_1", h_1(self, node))

CallHIgnorePreconditions ==
    Query("h_ignore_preconditions", h_ignore_preconditions(self, node))

\* air_cargo_p1, searched from its initial state, with the calls the driver
\* makes on a node between two expansions
NextCalls ==
    \/ Next
    \/ CallActions
    \/ CallGoalTest
    \/ CallH1
    \/ CallHIgnorePreconditions

SpecCalls == InitP1 /\ [][NextCalls]_vars

\* air_cargo_p1 built from an initial state that leaves one of the false
\* literals out, searched from its initial state
p1_without(k) ==
    AirCargoProblem(<<"C1", "C2">>, <<"P1", "P2">>, <<"JFK", "SFO">>,
                    FluentState(p1_pos,
                                SubSeq(p1_neg, 1, k - 1)
                                    \o SubSeq(p1_neg, k + 1, Len(p1_neg))),
                    p1_goal)

InitOpen == \E k \in 1..Len(p1_neg) : Start(p1_without(k))

SpecOpen == InitOpen /\ [][Next]_vars

----------------------------------------------------------------------------
(* Properties.                                                             *)

\* the flag of a literal in an encoded state, read off the vector
Flagged(prob, state, lit, flag) ==
    \E j \in DOMAIN prob.state_map : prob.state_map[j] = lit /\ state[j] = flag

\* the action last applied
LastAction == self.actions_list[action]

\* C1: in air_cargo_p1, once the six steps of Plan have been applied in order
\* from initial_state, goal_test holds of the state reached.
C1_PlanReachesGoal ==
    (self = air_cargo_p1 /\ followed = Len(Plan)) => goal_test(self, node)

C1_Witness ==
    /\ self = air_cargo_p1
    /\ followed = 6
    /\ LastAction = Unload("C2", "P2", "SFO")

\* C2: for every state result produces along a search, the positive and the
\* negative list result builds share no literal of state_map and together
\* hold every literal of state_map.
C2_PartitionPreserved ==
    action # 0 =>
        LET fs == new_state(self, parent, LastAction)
            map == ToSet(self.state_map)
        IN  /\ ToSet(fs.pos) \cap ToSet(fs.neg) \cap map = {}
            /\ map \subseteq ToSet(fs.pos) \cup ToSet(fs.neg)

C2_Witness ==
    /\ action # 0
    /\ node # parent
    /\ node # self.initial_state_TF

\* C3: for every encoded state, the entries of actions_list that actions
\* returns are exactly those whose positive preconditions are all flagged "T"
\* and whose negative preconditions are all flagged "F" in the state.
C3_ActionsExact ==
    LET listed == possible_indexes(self, node)
    IN  \A i \in DOMAIN self.actions_list :
            InList(i, listed)
            <=> LET a == self.actions_list[i]
                IN  /\ \A k \in DOMAIN a.precond_pos :
                          Flagged(self, node, a.precond_pos[k], "T")
                    /\ \A k \in DOMAIN a.precond_neg :
                          Flagged(self, node, a.precond_neg[k], "F")

\* a state where a Load has its positive preconditions and is still left out,
\* the cargo being in the plane already
C3_Witness ==
    /\ Flagged(self, node, Expr("At", <<"C1", "SFO">>), "T")
    /\ Flagged(self, node, Expr("At", <<"P1", "SFO">>), "T")
    /\ Flagged(self, node, Expr("In", <<"C1", "P1">>), "T")
    /\ ~InList(Load("C1", "P1", "SFO"), actions(self, node))
    /\ InList(Fly("P1", "SFO", "JFK"), actions(self, node))

\* C4: for every encoded state and every grounded action, a literal is true
\* in result(state, action) iff the action adds it or it was true and the
\* action does not delete it; it is false iff the action deletes it or it was
\* false and the action does not add it; a literal the action does not name
\* keeps its flag.
C4_ResultEffects ==
    action # 0 =>
        \A j \in DOMAIN self.state_map :
            LET lit == self.state_map[j]
                added == InList(lit, LastAction.effect_add)
                deleted == InList(lit, LastAction.effect_rem)
            IN  /\ node[j] = "T" <=> (added \/ (parent[j] = "T" /\ ~deleted))
                /\ node[j] = "F" <=> (deleted \/ (parent[j] = "F" /\ ~added))
                /\ (~added /\ ~deleted) => node[j] = parent[j]

\* an action that is not applicable is applied: its deleted literal was
\* false already, its added literal becomes true
C4_Witness ==
    /\ action # 0
    /\ ~InList(action, possible_indexes(self, parent))
    /\ node # parent

\* C5: for every encoded state, goal_test holds iff every literal of the goal
\* list is flagged "T" in the state.
C5_GoalTest ==
    goal_test(self, node)
        <=> \A i \in DOMAIN self.goal : Flagged(self, node, self.goal[i], "T")

C5_Witness ==
    /\ goal_test(self, node)
    /\ action # 0
    /\ ~goal_test(self, parent)

\* the actions Load(C1,P1,SFO), Load(C2,P2,JFK) and the flights of the two
\* planes away from where they stand
InitialActions4 ==
    {Load("C1", "P1", "SFO"), Load("C2", "P2", "JFK"),
     Fly("P1", "SFO", "JFK"), Fly("P2", "JFK", "SFO")}

\* C6 as stated: in air_cargo_p1, actions(initial_state) is the two loads and
\* the four flights of P1 and P2 in both directions.
C6_Original ==
    (self = air_cargo_p1 /\ node = self.initial_state_TF) =>
        ToSet(actions(self, node)) =
            InitialActions4 \cup {Fly("P1", "JFK", "SFO"), Fly("P2", "SFO", "JFK")}

\* C6 amended: in air_cargo_p1, actions(initial_state) is exactly
\* Load(C1,P1,SFO), Load(C2,P2,JFK), Fly(P1,SFO,JFK), Fly(P2,JFK,SFO); it has
\* no Unload, no Load whose plane or cargo is not at the airport, and no Fly
\* from an airport the plane is not at.
C6_InitialActions ==
    (self = air_cargo_p1 /\ node = self.initial_state_TF) =>
        LET acts == actions(self, node)
        IN  /\ ToSet(acts) = InitialActions4
            /\ Len(acts) = 4
            /\ \A k \in DOMAIN acts :
                  /\ acts[k].name # "Unload"
                  /\ \A m \in DOMAIN acts[k].precond_pos :
                        Flagged(self, node, acts[k].precond_pos[m], "T")

C6_Witness ==
    /\ self = air_cargo_p1
    /\ node = self.initial_state_TF
    /\ action = 0
    /\ Len(actions(self, node)) = 4

\* the entries of a list of actions with a given schema name
Named(lst, nm) == SelectSeq(lst, LAMBDA a : a.name = nm)

\* C7: with A airports, P planes and C cargos, actions_list has A*P*C Load,
\* A*P*C Unload and A*(A-1)*P Fly entries, A*P*C*2 + A*(A-1)*P in all, and no
\* Fly entry has from = to; with A = P = C = 2 it has 20.
C7_ActionCount ==
    LET A == Len(self.airports)
        P == Len(self.planes)
        C == Len(self.cargos)
        lst == self.actions_list
    IN  /\ Len(lst) = A * P * C * 2 + A * (A - 1) * P
        /\ Len(Named(lst, "Load")) = A * P * C
        /\ Len(Named(lst, "Unload")) = A * P * C
        /\ Len(Named(lst, "Fly")) = A * (A - 1) * P
        /\ \A i \in DOMAIN lst :
              lst[i].name = "Fly" => lst[i].args[2] # lst[i].args[3]
        /\ (A = 2 /\ P = 2 /\ C = 2) => Len(lst) = 20

C7_Witness ==
    /\ Len(self.airports) = 2
    /\ Len(self.planes) = 2
    /\ Len(self.cargos) = 2
    /\ Len(self.actions_list) = 20
    /\ action # 0

\* whether the action last applied has an effect literal outside state_map
EffectOutsideMap ==
    \E lit \in ToSet(LastAction.effect_add) \cup ToSet(LastAction.effect_rem) :
        ~InList(lit, self.state_map)

\* C8: a call of result with an action one of whose effect literals is not in
\* state_map is rejected with a RepresentationError.
C8_RejectsUnrepresentable ==
    (action # 0 /\ EffectOutsideMap) => raised = "RepresentationError"

\* the goal literals that are false in state s and true in state t
GoalsGained(prob, s, t) ==
    {i \in DOMAIN prob.goal :
        /\ Flagged(prob, s, prob.goal[i], "F")
        /\ Flagged(prob, t, prob.goal[i], "T")}

\* C9: when an applicable action makes one goal literal true that was false,
\* h_ignore_preconditions of the new state is that of the old state minus 1.
C9_GoalStepDecreases ==
    (action # 0 /\ Cardinality(GoalsGained(self, parent, node)) = 1) =>
        h_ignore_preconditions(self, node)
            = h_ignore_preconditions(self, parent) - 1

\* a step from two unmet goal literals to one
C9_Witness ==
    /\ action # 0
    /\ Cardinality(GoalsGained(self, parent, node)) = 1
    /\ h_ignore_preconditions(self, parent) = 2
    /\ h_ignore_preconditions(self, node) = 1

\* C10 as stated: no applicable action increases h_ignore_preconditions.
C10_Original ==
    action # 0 =>
        h_ignore_preconditions(self, node) <= h_ignore_preconditions(self, parent)

\* whether the action last applied deleted a goal literal that was true
DeletesMetGoal ==
    \E i \in DOMAIN self.goal :
        /\ InList(self.goal[i], LastAction.effect_rem)
        /\ Flagged(self, parent, self.goal[i], "T")

\* C10 amended: an applicable action increases h_ignore_preconditions only
\* when it deletes a goal literal that was true (a Load of a cargo standing at
\* its goal airport), and then by exactly 1; every other applicable action
\* leaves it equal or lower.
C10_IncreaseOnlyOnLoad ==
    action # 0 =>
        LET h0 == h_ignore_preconditions(self, parent)
            h1 == h_ignore_preconditions(self, node)
        IN  /\ DeletesMetGoal => (LastAction.name = "Load" /\ h1 = h0 + 1)
            /\ ~DeletesMetGoal => h1 <= h0

C10_Witness ==
    /\ action # 0
    /\ LastAction.name = "Load"
    /\ DeletesMetGoal
    /\ h_ignore_preconditions(self, node) = h_ignore_preconditions(self, parent) + 1

\* the states one applicable action away from s
Successors(prob, s) ==
    {result(prob, s, prob.actions_list[i]) : i \in ToSet(possible_indexes(prob, s))}

\* breadth-first search over the graph of actions and result: the number of
\* steps from the frontier to the nearest state where goal_test holds, given
\* that the frontier is k steps from the start; -1 when there is none
RECURSIVE Distance(_, _, _, _)
Distance(prob, frontier, visited, k) ==
    IF \E t \in frontier : goal_test(prob, t)
    THEN k
    ELSE LET next == (UNION {Successors(prob, t) : t \in frontier}) \ visited
         IN  IF next = {} THEN -1
             ELSE Distance(prob, next, visited \cup next, k + 1)

\* the length of the shortest sequence of applicable actions from s to a goal
\* state, -1 when no such sequence exists
ShortestPlan(prob, s) == Distance(prob, {s}, {s}, 0)

\* C11: in every reachable state from which a goal state can be reached,
\* h_ignore_preconditions is at most the length of the shortest sequence of
\* applicable actions that reaches a goal state.
C11_Admissible ==
    LET d == ShortestPlan(self, node)
    IN  d >= 0 => h_ignore_preconditions(self, node) <= d

\* a reached state one Unload away from the goal, where the bound is tight,
\* the initial state being six steps away with two unmet goal literals
C11_Witness ==
    /\ action # 0
    /\ h_ignore_preconditions(self, node) = 1
    /\ ShortestPlan(self, node) = 1
    /\ h_ignore_preconditions(self, self.initial_state_TF) = 2
    /\ ShortestPlan(self, self.initial_state_TF) = 6

\* C12: no call of actions, result, goal_test, h_1 or h_ignore_preconditions
\* changes state_map, actions_list (the actions' lists included) or goal, and
\* result leaves the state it was given as it was and returns the new one.
C12_ProblemImmutable ==
    [][/\ self'.state_map = self.state_map
       /\ self'.actions_list = self.actions_list
       /\ self'.goal = self.goal
       /\ called' = "result" => (parent' = node /\ returned' = node')]_vars

\* the driver has applied actions and then asked a heuristic: the problem is
\* still the one __init__ built
C12_Witness ==
    /\ action # 0
    /\ node # parent
    /\ called = "h_ignore_preconditions"
    /\ self = air_cargo_p1

\* C13: every call of h_1 returns 1, in goal states too.
C13_ConstantHeuristic ==
    called = "h_1" => returned = 1

C13_Witness ==
    /\ called = "h_1"
    /\ returned = 1
    /\ action # 0
    /\ goal_test(self, node)

\* the position of an entry in a list without repeated entries
Position(lst, x) == CHOOSE i \in DOMAIN lst : lst[i] = x

\* C14: actions_list holds the Load actions airport by airport, plane by
\* plane within an airport and cargo by cargo within a plane, then the Unload
\* actions in the same order, then the Fly actions by from-airport, then
\* to-airport, then plane; actions(state) lists its actions in the order they
\* have in actions_list.
C14_DeterministicOrder ==
    LET A == Len(self.airports)
        P == Len(self.planes)
        C == Len(self.cargos)
        lst == self.actions_list
        acts == actions(self, node)
    IN  /\ \A ia \in 1..A, ip \in 1..P, ic \in 1..C :
              LET n == ((ia - 1) * P + (ip - 1)) * C + ic
              IN  /\ lst[n] = Load(self.cargos[ic], self.planes[ip],
                                   self.airports[ia])
                  /\ lst[A * P * C + n] = Unload(self.cargos[ic], self.planes[ip],
                                                 self.airports[ia])
        /\ \A ifr \in 1..A, ito \in 1..A, ip \in 1..P :
              ifr # ito =>
                  LET pair == (ifr - 1) * (A - 1)
                                + (IF ito < ifr THEN ito - 1 ELSE ito - 2)
                  IN  lst[2 * A * P * C + pair * P + ip]
                          = Fly(self.planes[ip], self.airports[ifr],
                                self.airports[ito])
        /\ \A k \in 1..(Len(acts) - 1) :
              Position(lst, acts[k]) < Position(lst, acts[k + 1])

\* a state of a three-airport problem where actions returns a Load, an
\* Unload and a Fly
C14_Witness ==
    LET acts == actions(self, node)
    IN  /\ Len(self.airports) = 3
        /\ action # 0
        /\ \E k \in DOMAIN acts : acts[k].name = "Load"
        /\ \E k \in DOMAIN acts : acts[k].name = "Unload"
        /\ \E k \in DOMAIN acts : acts[k].name = "Fly"

\* C15: every entry of actions_list carries its schema name and its full
\* parameter tuple, (cargo, plane, airport) for Load and Unload and
\* (plane, from, to) for Fly, so no two entries have the same name and
\* arguments.
C15_FullParameterTuple ==
    LET lst == self.actions_list
    IN  /\ \A i \in DOMAIN lst :
              /\ Len(lst[i].args) = 3
              /\ lst[i].name \in {"Load", "Unload"} =>
                    /\ InList(lst[i].args[1], self.cargos)
                    /\ InList(lst[i].args[2], self.planes)
                    /\ InList(lst[i].args[3], self.airports)
              /\ lst[i].name = "Fly" =>
                    /\ InList(lst[i].args[1], self.planes)
                    /\ InList(lst[i].args[2], self.airports)
                    /\ InList(lst[i].args[3], self.airports)
        /\ \A i, j \in DOMAIN lst :
              (lst[i].name = lst[j].name /\ lst[i].args = lst[j].args) => i = j

\* the airports x is at, and the planes cargo c is in, in an encoded state
AtAirports(prob, state, x) ==
    {a \in ToSet(prob.airports) : Flagged(prob, state, Expr("At", <<x, a>>), "T")}

InPlanes(prob, state, c) ==
    {p \in ToSet(prob.planes) : Flagged(prob, state, Expr("In", <<c, p>>), "T")}

\* C16: in every reachable state of air_cargo_p1 each plane is at exactly one
\* airport, and each cargo is either at exactly one airport and in no plane
\* or in exactly one plane and at no airport.
C16_OnePlaceEach ==
    /\ \A p \in ToSet(self.planes) :
          Cardinality(AtAirports(self, node, p)) = 1
    /\ \A c \in ToSet(self.cargos) :
          LET nAt == Cardinality(AtAirports(self, node, c))
              nIn == Cardinality(InPlanes(self, node, c))
          IN  (nAt = 1 /\ nIn = 0) \/ (nAt = 0 /\ nIn = 1)

\* both planes have flown, C1 is in P2 and C2 has been put down at JFK again
C16_Witness ==
    /\ self = air_cargo_p1
    /\ action # 0
    /\ AtAirports(self, node, "P1") = {"JFK"}
    /\ AtAirports(self, node, "P2") = {"SFO"}
    /\ InPlanes(self, node, "C1") = {"P2"}
    /\ AtAirports(self, node, "C2") = {"JFK"}

\* the action that the claim names as undoing a: the Unload or the Load of
\* the same cargo and plane at the same airport, the flight back
Undo(a) ==
    IF a.name = "Load"
    THEN Unload(a.args[1], a.args[2], a.precond_pos[1].args[2])
    ELSE IF a.name = "Unload"
    THEN Load(a.args[1], a.args[2], a.precond_pos[2].args[2])
    ELSE Fly(a.args[1], a.args[3], a.args[2])

\* C17: in air_cargo_p1, after every applicable action the action that undoes
\* it is applicable and leads back to the state before, and from every
\* reachable state a goal state can be reached.
C17_Reversible ==
    /\ action # 0 =>
          LET b == Undo(LastAction)
          IN  /\ InList(b, actions(self, node))
              /\ result(self, node, b) = parent
    /\ ShortestPlan(self, node) >= 0

\* a state past the goal: C2 was loaded again at its goal airport, the goal
\* is one Unload away once more
C17_Witness ==
    /\ action # 0
    /\ LastAction = Load("C2", "P2", "SFO")
    /\ goal_test(self, parent)
    /\ ~goal_test(self, node)
    /\ ShortestPlan(self, node) = 1
    /\ result(self, node, Unload("C2", "P2", "SFO")) = parent

\* the positions where two encoded states differ
Differing(s, t) == {j \in DOMAIN s : s[j] # t[j]}

\* C18: every applicable action changes exactly two positions of a reachable
\* state: its one add-effect literal goes from "F" to "T" and its one
\* delete-effect literal from "T" to "F"; the new state is never the old one.
C18_TwoFlagsChange ==
    action # 0 =>
        /\ Len(LastAction.effect_add) = 1
        /\ Len(LastAction.effect_rem) = 1
        /\ Cardinality(Differing(parent, node)) = 2
        /\ Flagged(self, parent, LastAction.effect_add[1], "F")
        /\ Flagged(self, node, LastAction.effect_add[1], "T")
        /\ Flagged(self, parent, LastAction.effect_rem[1], "T")
        /\ Flagged(self, node, LastAction.effect_rem[1], "F")
        /\ node # parent

C18_Witness ==
    /\ action # 0
    /\ LastAction.name = "Fly"
    /\ Cardinality(Differing(parent, node)) = 2
    /\ Len(self.airports) = 3

\* C19: when every goal literal is in state_map, h_ignore_preconditions is 0
\* in a reachable state exactly when goal_test holds there.
C19_ZeroIffGoal ==
    (\A i \in DOMAIN self.goal : InList(self.goal[i], self.state_map)) =>
        (h_ignore_preconditions(self, node) = 0 <=> goal_test(self, node))

\* a reached goal state of a problem with two goal literals, the state before
\* it having one of them unmet
C19_Witness ==
    /\ action # 0
    /\ Len(self.goal) = 2
    /\ \A i \in DOMAIN self.goal : InList(self.goal[i], self.state_map)
    /\ h_ignore_preconditions(self, node) = 0
    /\ goal_test(self, node)
    /\ h_ignore_preconditions(self, parent) = 1
    /\ ~goal_test(self, parent)

\* C20: in air_cargo_p1 the shortest sequence of applicable actions from
\* initial_state to a goal state has 6 actions, the length of Plan.
C20_PlanIsShortest ==
    (self = air_cargo_p1 /\ node = self.initial_state_TF) =>
        (ShortestPlan(self, node) = 6 /\ Len(Plan) = 6)

\* Plan has been followed to its end from initial_state, which is six steps
\* from the nearest goal state
C20_Witness ==
    /\ self = air_cargo_p1
    /\ followed = Len(Plan)
    /\ goal_test(self, node)
    /\ ShortestPlan(self, self.initial_state_TF) = 6

====
